---- MODULE Spec2Model ----
(***************************************************************************)
(* Model of utils/directory_manager.py (DirectoryManager) and              *)
(* utils/prompt_manager.py (PromptManager).                                *)
(*                                                                         *)
(* The directory manager acts on a filesystem, modelled as a map from a    *)
(* finite universe of paths to the kind of node found there.  The prompt   *)
(* manager's functions are pure functions of strings, modelled on          *)
(* sequences of one-character strings.                                     *)
(***************************************************************************)
EXTENDS Integers, Sequences, FiniteSets, TLC

VARIABLES
    fs,             \* the filesystem: path -> kind of node
    required_dirs,  \* DirectoryManager.required_dirs: logical name -> path
    pre,            \* the filesystem when the last call started
    op,             \* the last call: [name, arg]
    results,        \* Dict[str, bool] returned by setup_directories / validate_permissions
    ok,             \* bool returned by cleanup_directory / ensure_file_directory
    path,           \* Optional[Path] returned by get_path
    listed,         \* paths returned by list_files
    raised,         \* TRUE iff the last call let an exception escape
    log,            \* the log records the last call emitted: {[level, msg]}
    txt,            \* the text a PromptManager function is applied to
    out,            \* the str a PromptManager function returned
    absent,         \* TRUE iff the PromptManager function returned None
    issues,         \* the List[str] validate_prompt returned
    templates,      \* PromptManager.templates: file stem -> the JSON value loaded
    kwargs          \* the keyword arguments of the last format_prompt call

vars == <<fs, required_dirs, pre, op, results, ok, path, listed, raised, log, txt, out, absent, issues,
          templates, kwargs>>

-----------------------------------------------------------------------------
(* Bounds *)

\* at most this many nodes exist under the base directory in an initial filesystem
MaxNodes == 2

-----------------------------------------------------------------------------
(* The path universe *)

Base == "/workspace"
Root == "/"

ResearchDir == "/workspace/research_dir"
SourceDir   == "/workspace/research_dir/src"
TexDir      == "/workspace/research_dir/tex"
OutputDir   == "/workspace/output"
StateDir    == "/workspace/state_saves"

\* validate_permissions: test_file = path / ".permission_test"
MarkerOf(p) ==
    CASE p = ResearchDir -> "/workspace/research_dir/.permission_test"
      [] p = SourceDir   -> "/workspace/research_dir/src/.permission_test"
      [] p = TexDir      -> "/workspace/research_dir/tex/.permission_test"
      [] p = OutputDir   -> "/workspace/output/.permission_test"
      [] p = StateDir    -> "/workspace/state_saves/.permission_test"

ManagedPaths == {ResearchDir, SourceDir, TexDir, OutputDir, StateDir}
Markers == {MarkerOf(p) : p \in ManagedPaths}

\* what callers keep in the managed directories
Notes  == "/workspace/research_dir/notes"
Run    == "/workspace/output/run"
RunLog == "/workspace/output/run/log"
UserPaths == {Notes, Run, RunLog}

Paths == {Base} \cup ManagedPaths \cup Markers \cup UserPaths

\* pathlib: Path.parent
Parent(p) ==
    CASE p = Base -> Root
      [] p \in {ResearchDir, OutputDir, StateDir} -> Base
      [] p \in {SourceDir, TexDir, Notes} -> ResearchDir
      [] p = Run -> OutputDir
      [] p = RunLog -> Run
      [] p \in Markers -> CHOOSE d \in ManagedPaths : MarkerOf(d) = p

-----------------------------------------------------------------------------
(* Kinds of node.                                                          *)
(*   absent   : nothing there                                              *)
(*   file     : a regular file                                             *)
(*   dangling : a symbolic link whose target is missing (exists() is       *)
(*              False, is_file() is False, is_dir() is False, but          *)
(*              iterdir() of the parent yields it)                         *)
(*   dir      : a directory the process owns and may write to              *)
(*   rodir    : a directory the process owns, mode r-x                     *)
(*   fdir     : a directory of another owner, r-x for the process          *)

DirKinds == {"dir", "rodir", "fdir"}
Kinds == {"absent", "file", "dangling"} \cup DirKinds

\* the directory above the base always exists and is writable
KindAt(f, p) == IF p = Root THEN "dir" ELSE f[p]

\* Path.exists(), Path.is_dir(), Path.is_file(): all follow symbolic links
Exists(f, p) == KindAt(f, p) \notin {"absent", "dangling"}
IsDir(f, p)  == KindAt(f, p) \in DirKinds
IsFile(f, p) == KindAt(f, p) = "file"
\* os: creating or removing an entry of p needs write permission on p
Writable(f, p) == KindAt(f, p) = "dir"

Present(f, p) == KindAt(f, p) # "absent"
\* Path.iterdir(): every entry of the directory
Children(f, p) == {q \in Paths : Parent(q) = p /\ Present(f, q)}

-----------------------------------------------------------------------------
(* DirectoryManager.__init__ *)

Names == {"research", "source", "tex", "output", "state"}
\* dict order of required_dirs, the order every loop over it follows
NameOrder == <<"research", "source", "tex", "output", "state">>
\* names a caller may pass: the five keys and one that is not a key
NameArgs == Names \cup {"bogus"}

InitialDirs ==
    [n \in Names |->
        CASE n = "research" -> ResearchDir
          [] n = "source"   -> SourceDir
          [] n = "tex"      -> TexDir
          [] n = "output"   -> OutputDir
          [] n = "state"    -> StateDir]

NoResults == [n \in {} |-> TRUE]
NoPath == "None"
NoText == <<>>
\* self.templates = {}
NoTemplates == [stem \in {} |-> NoText]
\* a call without keyword arguments
NoKwargs == [key \in {} |-> NoText]
Rec(level, msg, p) == [level |-> level, msg |-> msg, path |-> p]

-----------------------------------------------------------------------------
(* Filesystem primitives; each returns [fs, ok], ok = FALSE when the call   *)
(* raises OSError                                                           *)

Done(f) == [fs |-> f, ok |-> TRUE]
Fail(f) == [fs |-> f, ok |-> FALSE]

\* Path.mkdir(parents=True), without exist_ok: a directory already there is an error
RECURSIVE MkdirNew(_, _)
MkdirNew(f, p) ==
    IF Present(f, p) THEN Fail(f)
    ELSE IF KindAt(f, Parent(p)) = "absent"
         THEN LET r == MkdirNew(f, Parent(p))
              IN  IF r.ok THEN Done([r.fs EXCEPT ![p] = "dir"]) ELSE r
    ELSE IF Writable(f, Parent(p)) THEN Done([f EXCEPT ![p] = "dir"])
    ELSE Fail(f)

\* Path.mkdir(parents=True, exist_ok=True)
RECURSIVE Mkdir(_, _)
Mkdir(f, p) ==
    IF IsDir(f, p) THEN Done(f)                    \* FileExistsError, is_dir(): swallowed
    ELSE IF Present(f, p) THEN Fail(f)             \* FileExistsError, not a directory
    ELSE IF KindAt(f, Parent(p)) = "absent"        \* FileNotFoundError: make the parent first
         THEN LET r == Mkdir(f, Parent(p))
              IN  IF r.ok THEN Done([r.fs EXCEPT ![p] = "dir"]) ELSE r
    ELSE IF Writable(f, Parent(p)) THEN Done([f EXCEPT ![p] = "dir"])
    ELSE Fail(f)                                   \* PermissionError, NotADirectoryError, ...

\* Path.chmod(0o777): only the owner may change the mode
Chmod(f, p) ==
    IF KindAt(f, p) \in {"dir", "rodir"} THEN Done([f EXCEPT ![p] = "dir"])
    ELSE Fail(f)

\* Path.unlink() / os.unlink()
Unlink(f, p) ==
    IF Present(f, p) /\ ~IsDir(f, p) /\ Writable(f, Parent(p))
    THEN Done([f EXCEPT ![p] = "absent"])
    ELSE Fail(f)

\* Path.touch(): utime on what is there, else open(O_CREAT)
Touch(f, p) ==
    IF Exists(f, p) THEN Done(f)
    ELSE IF Writable(f, Parent(p)) THEN Done([f EXCEPT ![p] = "file"])
    ELSE Fail(f)

\* shutil.rmtree(d): entries first, then the directory; the first error is raised
RECURSIVE Rmtree(_, _)
Rmtree(f, d) ==
    LET cs == Children(f, d)
    IN  IF cs = {}
        THEN IF Writable(f, Parent(d)) THEN Done([f EXCEPT ![d] = "absent"]) ELSE Fail(f)
        ELSE LET c == CHOOSE c \in cs : TRUE
                 r == IF IsDir(f, c) THEN Rmtree(f, c) ELSE Unlink(f, c)
             IN  IF r.ok THEN Rmtree(r.fs, d) ELSE r

-----------------------------------------------------------------------------
(* setup_directories *)

\* the loop body without its try: the OSError escapes and ends the loop
SetupStepUnguarded(dirs, st, name) ==
    LET p == dirs[name]
        m == Mkdir(st.fs, p)
        c == IF m.ok THEN Chmod(m.fs, p) ELSE m
    IN  IF c.ok
        THEN [fs |-> c.fs, results |-> (name :> TRUE) @@ st.results, raised |-> FALSE,
              log |-> st.log \cup {Rec("info", "created/verified successfully", p)}]
        ELSE [fs |-> c.fs, results |-> st.results, raised |-> TRUE, log |-> st.log]

\* the loop body recording success before the directory is made
SetupStepEager(dirs, st, name) ==
    LET p == dirs[name]
        m == Mkdir(st.fs, p)
        c == IF m.ok THEN Chmod(m.fs, p) ELSE m
    IN  [fs |-> c.fs, results |-> (name :> TRUE) @@ st.results, raised |-> FALSE,
         log |-> st.log \cup (IF c.ok THEN {Rec("info", "created/verified successfully", p)}
                              ELSE {Rec("error", "Failed to create directory", p)})]

\* one pass of the loop body, try and except
SetupStep(dirs, st, name) ==
    LET p == dirs[name]
        m == Mkdir(st.fs, p)
        c == IF m.ok THEN Chmod(m.fs, p) ELSE m
    IN  IF c.ok
        THEN [fs |-> c.fs, results |-> (name :> TRUE) @@ st.results, raised |-> FALSE,
              log |-> st.log \cup {Rec("info", "created/verified successfully", p)}]
        ELSE [fs |-> c.fs, results |-> (name :> FALSE) @@ st.results, raised |-> FALSE,
              log |-> st.log \cup {Rec("error", "Failed to create directory", p)}]

RECURSIVE SetupLoop(_, _, _)
SetupLoop(dirs, st, i) ==
    IF i > Len(NameOrder) \/ st.raised THEN st
    ELSE SetupLoop(dirs, SetupStep(dirs, st, NameOrder[i]), i + 1)

Start(f) == [fs |-> f, results |-> NoResults, raised |-> FALSE, log |-> {}]

SetupDirectories ==
    LET r == SetupLoop(required_dirs, Start(fs), 1)
    IN  /\ op' = [name |-> "setup_directories", arg |-> "-"]
        /\ pre' = fs
        /\ fs' = r.fs
        /\ results' = r.results
        /\ raised' = r.raised
        /\ log' = r.log
        /\ ok' = FALSE /\ path' = NoPath /\ listed' = {}
        /\ UNCHANGED <<required_dirs, txt, out, absent, issues, templates, kwargs>>

-----------------------------------------------------------------------------
(* cleanup_directory *)

\* the orders in which iterdir() may yield the entries
Orders(S) == {s \in [1..Cardinality(S) -> S] : \A i, j \in DOMAIN s : i # j => s[i] # s[j]}

\* the body of the for loop, over the entries in the order iterdir() gave
RECURSIVE RemoveItems(_, _, _)
RemoveItems(f, items, i) ==
    IF i > Len(items) THEN Done(f)
    ELSE LET item == items[i]
             r == IF IsFile(f, item) THEN Unlink(f, item)
                  ELSE IF IsDir(f, item) THEN Rmtree(f, item)
                  ELSE Done(f)
         IN  IF r.ok THEN RemoveItems(r.fs, items, i + 1) ELSE r

\* a name that is not a key, were the membership test missing: KeyError in the
\* try block, and the handler's own use of the unbound path escapes
UnknownDirRaises(f, dir_type) ==
    [fs |-> f, ok |-> FALSE, raised |-> TRUE, log |-> {}]

\* dir_type not in self.required_dirs
UnknownDir(f, dir_type) ==
    [fs |-> f, ok |-> FALSE, raised |-> FALSE,
     log |-> {Rec("error", "Unknown directory type", dir_type)}]

\* a missing directory taken as already clean
MissingDirIsClean(f, p) ==
    [fs |-> f, ok |-> TRUE, raised |-> FALSE, log |-> {}]

\* path.exists() is False
MissingDir(f, p) ==
    [fs |-> f, ok |-> FALSE, raised |-> FALSE, log |-> {}]

\* what the call returns and leaves behind: [fs, ok, raised, log]
Cleanup(dirs, f, dir_type, items) ==
    IF dir_type \notin DOMAIN dirs THEN UnknownDir(f, dir_type)
    ELSE LET p == dirs[dir_type]
         IN  IF Exists(f, p)
             THEN LET r == IF IsDir(f, p) THEN RemoveItems(f, items, 1) ELSE Fail(f)
                  IN  IF r.ok
                      THEN [fs |-> r.fs, ok |-> TRUE, raised |-> FALSE,
                            log |-> {Rec("info", "Cleaned directory", p)}]
                      ELSE [fs |-> r.fs, ok |-> FALSE, raised |-> FALSE,
                            log |-> {Rec("error", "Failed to clean directory", p)}]
             ELSE MissingDir(f, p)

CleanupDirectory(dir_type) ==
    \E items \in Orders(IF dir_type \in DOMAIN required_dirs
                        THEN Children(fs, required_dirs[dir_type]) ELSE {}) :
        LET r == Cleanup(required_dirs, fs, dir_type, items)
        IN  /\ op' = [name |-> "cleanup_directory", arg |-> dir_type]
            /\ pre' = fs
            /\ fs' = r.fs
            /\ ok' = r.ok
            /\ log' = r.log
            /\ raised' = r.raised
            /\ results' = NoResults /\ path' = NoPath /\ listed' = {}
            /\ UNCHANGED <<required_dirs, txt, out, absent, issues, templates, kwargs>>

-----------------------------------------------------------------------------
(* get_path, ensure_file_directory, list_files *)

\* dict.get(dir_type, base_dir): the base directory for a name that is not a key
GetPathOrBase(dirs, dir_type) ==
    IF dir_type \in DOMAIN dirs THEN dirs[dir_type] ELSE Base

\* dict.get(dir_type)
GetPathValue(dirs, dir_type) ==
    IF dir_type \in DOMAIN dirs THEN dirs[dir_type] ELSE NoPath

GetPath(dir_type) ==
    /\ op' = [name |-> "get_path", arg |-> dir_type]
    /\ pre' = fs
    /\ path' = GetPathValue(required_dirs, dir_type)
    /\ raised' = FALSE
    /\ log' = {} /\ ok' = FALSE /\ results' = NoResults /\ listed' = {}
    /\ UNCHANGED <<fs, required_dirs, txt, out, absent, issues, templates, kwargs>>

\* file paths a caller may pass to ensure_file_directory
FilePaths == {RunLog, Notes, MarkerOf(TexDir)}

EnsureFileDirectory(filepath) ==
    LET r == Mkdir(fs, Parent(filepath))
    IN  /\ op' = [name |-> "ensure_file_directory", arg |-> filepath]
        /\ pre' = fs
        /\ fs' = r.fs
        /\ ok' = r.ok
        /\ log' = IF r.ok THEN {} ELSE {Rec("error", "Failed to create directory for", filepath)}
        /\ raised' = FALSE
        /\ results' = NoResults /\ path' = NoPath /\ listed' = {}
        /\ UNCHANGED <<required_dirs, txt, out, absent, issues, templates, kwargs>>

\* list_files(dir_type, "*")
ListFiles(dir_type) ==
    /\ op' = [name |-> "list_files", arg |-> dir_type]
    /\ pre' = fs
    /\ listed' = IF dir_type \in DOMAIN required_dirs
                 THEN Children(fs, required_dirs[dir_type]) ELSE {}
    /\ raised' = FALSE
    /\ log' = {} /\ ok' = FALSE /\ results' = NoResults /\ path' = NoPath
    /\ UNCHANGED <<fs, required_dirs, txt, out, absent, issues, templates, kwargs>>

-----------------------------------------------------------------------------
(* validate_permissions *)

\* the probe taken as passed once touch() returns, the unlink left out
ValidateStepTouchOnly(dirs, st, name) ==
    LET p == dirs[name]
        t == Touch(st.fs, MarkerOf(p))
    IN  IF ~Exists(st.fs, p)
        THEN [st EXCEPT !.results = (name :> FALSE) @@ st.results]
        ELSE IF t.ok
        THEN [st EXCEPT !.fs = t.fs, !.results = (name :> TRUE) @@ st.results]
        ELSE [st EXCEPT !.fs = t.fs, !.results = (name :> FALSE) @@ st.results,
                        !.log = st.log \cup {Rec("error", "Permission validation failed", p)}]

\* one pass of the loop body, try and except
ValidateStep(dirs, st, name) ==
    LET p == dirs[name]
        t == Touch(st.fs, MarkerOf(p))
        u == IF t.ok THEN Unlink(t.fs, MarkerOf(p)) ELSE t
    IN  IF ~Exists(st.fs, p)
        THEN [st EXCEPT !.results = (name :> FALSE) @@ st.results]
        ELSE IF u.ok
        THEN [st EXCEPT !.fs = u.fs, !.results = (name :> TRUE) @@ st.results]
        ELSE [st EXCEPT !.fs = u.fs, !.results = (name :> FALSE) @@ st.results,
                        !.log = st.log \cup {Rec("error", "Permission validation failed", p)}]

RECURSIVE ValidateLoop(_, _, _)
ValidateLoop(dirs, st, i) ==
    IF i > Len(NameOrder) \/ st.raised THEN st
    ELSE ValidateLoop(dirs, ValidateStep(dirs, st, NameOrder[i]), i + 1)

ValidatePermissions ==
    LET r == ValidateLoop(required_dirs, Start(fs), 1)
    IN  /\ op' = [name |-> "validate_permissions", arg |-> "-"]
        /\ pre' = fs
        /\ fs' = r.fs
        /\ results' = r.results
        /\ raised' = r.raised
        /\ log' = r.log
        /\ ok' = FALSE /\ path' = NoPath /\ listed' = {}
        /\ UNCHANGED <<required_dirs, txt, out, absent, issues, templates, kwargs>>

-----------------------------------------------------------------------------
(* The filesystems a DirectoryManager may be constructed over *)

EmptyFs(b) == [p \in Paths |-> IF p = Base THEN b ELSE "absent"]

KindsFor(p) ==
    IF p \in ManagedPaths THEN {"file", "dangling", "dir", "rodir", "fdir"}
    ELSE IF p \in Markers THEN {"file", "dir"}
    ELSE {"file", "dangling", "dir", "rodir"}

\* f with one more node, under a directory that is there
Extend(f) ==
    UNION {{[f EXCEPT ![p] = k] : k \in KindsFor(p)} :
           p \in {q \in Paths \ {Base} : ~Present(f, q) /\ IsDir(f, Parent(q))}}

RECURSIVE InitFs(_)
InitFs(k) ==
    IF k = 0 THEN {EmptyFs(b) : b \in {"absent", "dir", "rodir"}}
    ELSE LET prev == InitFs(k - 1) IN prev \cup UNION {Extend(f) : f \in prev}

Init ==
    /\ fs \in InitFs(MaxNodes)
    /\ required_dirs = InitialDirs
    /\ pre = fs
    /\ op = [name |-> "__init__", arg |-> Base]
    /\ results = NoResults
    /\ ok = FALSE
    /\ path = NoPath
    /\ listed = {}
    /\ raised = FALSE
    /\ log = {}
    /\ txt = NoText
    /\ out = NoText
    /\ absent = FALSE
    /\ issues = <<>>
    /\ templates = NoTemplates
    /\ kwargs = NoKwargs

Next ==
    \/ SetupDirectories
    \/ \E n \in NameArgs : CleanupDirectory(n)
    \/ \E n \in NameArgs : GetPath(n)
    \/ \E p \in FilePaths : EnsureFileDirectory(p)
    \/ \E n \in NameArgs : ListFiles(n)
    \/ ValidatePermissions

Spec == Init /\ [][Next]_vars

-----------------------------------------------------------------------------
(* Properties of the directory manager, checked under Spec *)

IsCall(name) == op.name = name
\* the path the last call was about, for a call that names a key
ArgPath == required_dirs[op.arg]
Reported(n) == n \in DOMAIN results /\ results[n]

\* C1, as stated: after setup_directories() returns, get_path(name) is a
\* directory on disk for every one of the five names.
C1_AllDirsExistAfterSetup ==
    IsCall("setup_directories") =>
        \A n \in Names : IsDir(fs, GetPathValue(required_dirs, n))

\* C1, amended: after setup_directories() returns, get_path(name) is a directory
\* on disk for every name the returned status map reports true.
C1_ReportedDirsExistAfterSetup ==
    IsCall("setup_directories") =>
        \A n \in Names : Reported(n) => IsDir(fs, GetPathValue(required_dirs, n))

C1_Witness ==
    /\ IsCall("setup_directories")
    /\ \A n \in Names : Reported(n) /\ ~Present(pre, required_dirs[n])

\* C2: setup_directories() never raises and returns a status map over exactly the
\* five names from any filesystem; a name whose directory could not be made or
\* chmod-ed is false, and the names after it are still attempted: each is true
\* exactly when its own directory ends up a writable directory of the process.
C2_SetupTotal ==
    IsCall("setup_directories") =>
        /\ ~raised
        /\ DOMAIN results = Names
        /\ \A n \in Names : results[n] <=> Writable(fs, required_dirs[n])
        /\ \A n \in Names :
              ~results[n] => Rec("error", "Failed to create directory", required_dirs[n]) \in log

C2_Witness ==
    /\ IsCall("setup_directories")
    /\ DOMAIN results = Names
    /\ ~results["research"] /\ ~results["source"]
    /\ results["output"] /\ ~Present(pre, OutputDir)

\* C3, as stated: for a known name, whenever cleanup_directory(name) returns True
\* the directory still exists and has no children left.
C3_CleanupLeavesEmptyDir ==
    (IsCall("cleanup_directory") /\ ok) =>
        /\ IsDir(fs, ArgPath)
        /\ Children(fs, ArgPath) = {}

\* C4: cleanup_directory(name) with a name that is not a key fails with the
\* unknown-directory-type error (False returned, that error logged, nothing
\* raised) and leaves the filesystem unchanged.
C4_UnknownNameFails ==
    (IsCall("cleanup_directory") /\ op.arg \notin Names) =>
        /\ ~ok
        /\ ~raised
        /\ log = {Rec("error", "Unknown directory type", op.arg)}
        /\ fs = pre

C4_Witness ==
    /\ IsCall("cleanup_directory")
    /\ op.arg = "bogus"
    /\ ~ok
    /\ \E n \in Names : Children(fs, required_dirs[n]) # {}

\* C5: cleanup_directory(name) for a known name whose directory does not exist
\* returns False, does not create it and changes nothing on disk; it returns True
\* only when the directory existed when it was called.
C5_MissingDirFails ==
    (IsCall("cleanup_directory") /\ op.arg \in Names) =>
        /\ ~Exists(pre, ArgPath) => (~ok /\ fs = pre /\ ~raised)
        /\ ok => IsDir(pre, ArgPath)

C5_Witness ==
    /\ IsCall("cleanup_directory")
    /\ op.arg = "output"
    /\ ~Present(pre, OutputDir)
    /\ IsDir(pre, ResearchDir)
    /\ ~ok

\* C6: validate_permissions() never raises and returns a map over the five names;
\* an entry is false whenever its directory is missing, and true only if the
\* marker file was both created in and deleted from that directory: the directory
\* is writable and no marker is left in it.
C6_ValidateTotal ==
    IsCall("validate_permissions") =>
        /\ ~raised
        /\ DOMAIN results = Names
        /\ \A n \in Names :
              /\ ~Exists(pre, required_dirs[n]) => ~results[n]
              /\ results[n] => /\ Writable(pre, required_dirs[n])
                               /\ ~Present(fs, MarkerOf(required_dirs[n]))

C6_Witness ==
    /\ IsCall("validate_permissions")
    /\ DOMAIN results = Names
    /\ results["output"]
    /\ ~results["state"] /\ ~Exists(pre, StateDir)
    /\ ~results["research"] /\ Exists(pre, ResearchDir)

\* C7: the mapping from logical name to path is the one made at construction
\* after any sequence of calls; get_path(name) returns that path for each of the
\* five names and None for any other name, and changes neither the mapping nor
\* the filesystem.
C7_MappingFixed ==
    /\ required_dirs = InitialDirs
    /\ IsCall("get_path") =>
          /\ path = (IF op.arg \in Names THEN InitialDirs[op.arg] ELSE NoPath)
          /\ fs = pre
          /\ ~raised

C7_Witness ==
    /\ IsCall("get_path")
    /\ op.arg = "bogus"
    /\ path = NoPath
    /\ \A n \in Names : IsDir(fs, required_dirs[n])

-----------------------------------------------------------------------------
(* PromptManager: strings are sequences of one-character strings *)

\* re: \w, for the characters the inputs are made of
WordChars == {"a", "b", "c", "d", "e", "h", "i", "j", "l", "m", "n", "o", "p",
              "r", "s", "t", "x", "y", "1", "_"}
\* re: \s, str.split()
SpaceChars == {" ", "\t", "\n", "\r"}
IsWord(c)  == c \in WordChars
IsSpace(c) == c \in SpaceChars

\* a[i..] starts with b
StartsAt(a, i, b) ==
    /\ i >= 1
    /\ i + Len(b) - 1 <= Len(a)
    /\ \A k \in 1..Len(b) : a[i + k - 1] = b[k]

\* b in a
Contains(a, b) == \E i \in 1..(Len(a) + 1) : StartsAt(a, i, b)

\* a[i:j] of Python, 1-based and inclusive here
Slice(a, i, j) == IF j < i THEN <<>> ELSE SubSeq(a, i, j)

(* clean_search_query *)

\* the class without its hyphen: [^\w\s]
KeepCharNoHyphen(c) == IsWord(c) \/ IsSpace(c)

\* re.sub(r'[^\w\s-]', '', query)
KeepChar(c) == IsWord(c) \/ IsSpace(c) \/ c = "-"
StripSpecial(query) == SelectSeq(query, KeepChar)

\* query.split(): a whitespace character separates two words iff it is the first
\* of its run and the run has a word before it and a word after it
Separates(query, i) ==
    /\ IsSpace(query[i])
    /\ i > 1 /\ ~IsSpace(query[i - 1])
    /\ \E j \in (i + 1)..Len(query) : ~IsSpace(query[j])

\* " ".join(query.split())
JoinSplit(query) ==
    LET kept == {i \in 1..Len(query) : ~IsSpace(query[i]) \/ Separates(query, i)}
        nth(k) == CHOOSE i \in kept : Cardinality({j \in kept : j <= i}) = k
    IN  [k \in 1..Cardinality(kept) |->
            IF IsSpace(query[nth(k)]) THEN " " ELSE query[nth(k)]]

clean_search_query(query) == JoinSplit(StripSpecial(query))

(* validate_prompt *)

\* a line longer than this is reported
LineLimit == 120

IsQuote(c) == c = "\""
\* prompt.count('"') % 2 != 0
OddQuotes(prompt) == Len(SelectSeq(prompt, IsQuote)) % 2 # 0

\* '\r\n' in prompt and '\n' in prompt
MixedEndings(prompt) == Contains(prompt, <<"\r", "\n">>) /\ Contains(prompt, <<"\n">>)

\* str.splitlines() ends a line at \n, \r and \r\n
LineBreaks == {"\n", "\r"}

\* any(len(line) > 120 for line in prompt.splitlines()): LineLimit + 1 characters
\* in a row without a line break
LongLines(prompt) ==
    \E i \in 1..(Len(prompt) - LineLimit) :
        \A k \in i..(i + LineLimit) : prompt[k] \notin LineBreaks

\* re.search(r'<[^>]+>', prompt)
Placeholder(prompt) ==
    \E i \in 1..Len(prompt) : \E j \in (i + 2)..Len(prompt) :
        /\ prompt[i] = "<"
        /\ prompt[j] = ">"
        /\ \A k \in (i + 1)..(j - 1) : prompt[k] # ">"

validate_prompt(prompt) ==
    (IF OddQuotes(prompt) THEN <<"Mismatched quotes">> ELSE <<>>)
    \o (IF MixedEndings(prompt) THEN <<"Mixed line endings">> ELSE <<>>)
    \o (IF LongLines(prompt) THEN <<"Lines exceed recommended length">> ELSE <<>>)
    \o (IF Placeholder(prompt) THEN <<"Unreplaced placeholders found">> ELSE <<>>)

(* extract_code_block *)

\* the backquote character (a string TLA+ can hold stands for it)
Tick == "BACKQUOTE"
Fence == <<Tick, Tick, Tick>>
\* the language argument: None, or the identifier
Python == <<"p", "y">>
Languages == {"None", "py"}
LangChars(language) == IF language = "py" THEN Python ELSE <<>>

\* the end of the longest run of \w from i on: the first index after it
RECURSIVE WordEnd(_, _)
WordEnd(text, i) ==
    IF i <= Len(text) /\ IsWord(text[i]) THEN WordEnd(text, i + 1) ELSE i

\* ```(?:{})?\n matched at i: the index after the newline, 0 when it does not match
OpenAt(text, i, language) ==
    IF ~StartsAt(text, i, Fence) THEN 0
    ELSE IF language = "None"
         THEN LET e == WordEnd(text, i + 3)                       \* (?:\w*)?
              IN  IF StartsAt(text, e, <<"\n">>) THEN e + 1 ELSE 0
         ELSE IF StartsAt(text, i + 3, LangChars(language) \o <<"\n">>)
              THEN i + 3 + Len(LangChars(language)) + 1           \* the group taken
              ELSE IF StartsAt(text, i + 3, <<"\n">>) THEN i + 4  \* the group skipped
              ELSE 0

\* (.*?)\n``` from c on: the least index at which \n``` starts, 0 when there is none
CloseFrom(text, c) ==
    LET ends == {e \in c..Len(text) : StartsAt(text, e, <<"\n">> \o Fence)}
    IN  IF ends = {} THEN 0 ELSE CHOOSE e \in ends : \A e2 \in ends : e <= e2

\* re.search(pattern, text, re.DOTALL): the leftmost match; [found, group]
extract_code_block(text, language) ==
    LET starts == {i \in 1..Len(text) :
                     /\ OpenAt(text, i, language) # 0
                     /\ CloseFrom(text, OpenAt(text, i, language)) # 0}
    IN  IF starts = {} THEN [found |-> FALSE, group |-> <<>>]
        ELSE LET i == CHOOSE i \in starts : \A i2 \in starts : i <= i2
                 c == OpenAt(text, i, language)
             IN  [found |-> TRUE, group |-> Slice(text, c, CloseFrom(text, c) - 1)]

(* The calls *)

NoFsCall ==
    /\ pre' = fs
    /\ raised' = FALSE
    /\ log' = {} /\ ok' = FALSE /\ results' = NoResults /\ path' = NoPath /\ listed' = {}
    /\ UNCHANGED <<fs, required_dirs, txt, templates, kwargs>>

CleanSearchQuery ==
    /\ op' = [name |-> "clean_search_query", arg |-> "-"]
    /\ out' = clean_search_query(txt)
    /\ absent' = FALSE
    /\ issues' = <<>>
    /\ NoFsCall

ValidatePrompt ==
    /\ op' = [name |-> "validate_prompt", arg |-> "-"]
    /\ issues' = validate_prompt(txt)
    /\ out' = NoText
    /\ absent' = FALSE
    /\ NoFsCall

ExtractCodeBlock(language) ==
    LET m == extract_code_block(txt, language)
    IN  /\ op' = [name |-> "extract_code_block", arg |-> language]
        /\ out' = m.group
        /\ absent' = ~m.found
        /\ issues' = <<>>
        /\ NoFsCall

(* The texts the functions are applied to *)

\* strings of up to MaxLen characters of Alphabet
MaxLen == 3
Alphabet == {"a", "_", "!", "-", " ", "\n", "\r", "\"", "<", ">"}
ShortTexts == UNION {[1..k -> Alphabet] : k \in 0..MaxLen}

\* texts of up to MaxLines pieces, each a fence line or a line of content
MaxLines == 4
Pieces == {Fence \o Python \o <<"\n">>, Fence \o <<"j", "s", "\n">>, Fence \o <<"\n">>,
           Fence, <<"x", "\n">>, <<"x">>}
RECURSIVE Flatten(_)
Flatten(ps) == IF ps = <<>> THEN <<>> ELSE Head(ps) \o Flatten(Tail(ps))
FencedTexts == {Flatten(ps) : ps \in UNION {[1..k -> Pieces] : k \in 0..MaxLines}}

Repeat(c, n) == [i \in 1..n |-> c]

\* "a!! b--c  d"
QueryExample == <<"a", "!", "!", " ", "b", "-", "-", "c", " ", " ", "d">>
\* "text ```python\nprint(1)\n``` more"
BlockExample ==
    <<"t", "e", "x", "t", " ">> \o Fence \o <<"p", "y", "t", "h", "o", "n", "\n">>
    \o <<"p", "r", "i", "n", "t", "(", "1", ")", "\n">> \o Fence \o <<" ", "m", "o", "r", "e">>
\* "line\r\nother\n"
EndingsExample ==
    <<"l", "i", "n", "e", "\r", "\n", "o", "t", "h", "e", "r", "\n">>
LongTexts ==
    {Repeat("a", LineLimit), Repeat("a", LineLimit + 1),
     Repeat("a", LineLimit + 1) \o <<"\r", "\n", "\"">>,
     Repeat("a", LineLimit) \o <<"\n">> \o Repeat("a", LineLimit)}

Texts == ShortTexts \cup FencedTexts \cup LongTexts
         \cup {QueryExample, BlockExample, EndingsExample}

InitText ==
    /\ txt \in Texts
    /\ fs = EmptyFs("dir")
    /\ required_dirs = InitialDirs
    /\ pre = fs
    /\ op = [name |-> "__init__", arg |-> "-"]
    /\ results = NoResults
    /\ ok = FALSE
    /\ path = NoPath
    /\ listed = {}
    /\ raised = FALSE
    /\ log = {}
    /\ out = NoText
    /\ absent = FALSE
    /\ issues = <<>>
    /\ templates = NoTemplates
    /\ kwargs = NoKwargs

NextText ==
    \/ CleanSearchQuery
    \/ ValidatePrompt
    \/ \E language \in Languages : ExtractCodeBlock(language)

SpecText == InitText /\ [][NextText]_vars

-----------------------------------------------------------------------------
(* format_feedback *)

\* max_length: int = 1000
DefaultMaxLength == 1000

Ellipsis == <<".", ".", ".">>

\* str.strip(): without the whitespace at either end
Strip(s) ==
    IF \A i \in 1..Len(s) : IsSpace(s[i]) THEN <<>>
    ELSE LET first == CHOOSE i \in 1..Len(s) :
                          ~IsSpace(s[i]) /\ \A j \in 1..(i - 1) : IsSpace(s[j])
             last  == CHOOSE i \in 1..Len(s) :
                          ~IsSpace(s[i]) /\ \A j \in (i + 1)..Len(s) : IsSpace(s[j])
         IN  SubSeq(s, first, last)

\* the cut made at the limit itself: len(feedback) >= max_length
TruncateAtLimit(feedback, max_length) ==
    IF Len(feedback) >= max_length
    THEN SubSeq(feedback, 1, max_length) \o Ellipsis
    ELSE feedback

\* if len(feedback) > max_length: feedback = feedback[:max_length] + "..."
\* (max_length >= 0)
Truncate(feedback, max_length) ==
    IF Len(feedback) > max_length
    THEN SubSeq(feedback, 1, max_length) \o Ellipsis
    ELSE feedback

format_feedback(feedback, max_length) == Strip(Truncate(feedback, max_length))

FormatFeedback(max_length) ==
    /\ op' = [name |-> "format_feedback", arg |-> max_length]
    /\ out' = format_feedback(txt, max_length)
    /\ absent' = FALSE
    /\ issues' = <<>>
    /\ NoFsCall

\* "x" * 2000, twice the default limit
FeedbackExample == Repeat("x", 2 * DefaultMaxLength)
FeedbackTexts == ShortTexts \cup {FeedbackExample, Repeat("x", DefaultMaxLength)}
\* the limits a caller may pass: every one around the short texts, and the default
MaxLengths == 0..(MaxLen + 1) \cup {DefaultMaxLength}

InitFeedback ==
    /\ txt \in FeedbackTexts
    /\ fs = EmptyFs("dir")
    /\ required_dirs = InitialDirs
    /\ pre = fs
    /\ op = [name |-> "__init__", arg |-> "-"]
    /\ results = NoResults
    /\ ok = FALSE
    /\ path = NoPath
    /\ listed = {}
    /\ raised = FALSE
    /\ log = {}
    /\ out = NoText
    /\ absent = FALSE
    /\ issues = <<>>
    /\ templates = NoTemplates
    /\ kwargs = NoKwargs

NextFeedback == \E max_length \in MaxLengths : FormatFeedback(max_length)

SpecFeedback == InitFeedback /\ [][NextFeedback]_vars

-----------------------------------------------------------------------------
(* _load_templates and format_prompt *)

\* what json.load gives: a str, or a value of another type that is truthy or not
\* ({"a": 1} or {}, [1] or [], 5 or 0, true or false, null)
JsonStr(text) == [type |-> "str", truthy |-> text # <<>>, text |-> text]
JsonOther(type, truthy) == [type |-> type, truthy |-> truthy, text |-> NoText]
JsonOthers ==
    {JsonOther(type, truthy) : type \in {"dict", "list", "int", "bool"}, truthy \in BOOLEAN}
        \cup {JsonOther("NoneType", FALSE)}

\* a file that open() or json.load() fails on
Malformed == [type |-> "malformed", truthy |-> FALSE, text |-> NoText]

\* for template_file in prompt_dir.glob("*.json"):
\*     try: templates[template_file.stem] = json.load(f)  except Exception: log
\* files: stem -> content of the *.json files of prompt_dir (none when prompt_dir
\* is None or does not exist)
LoadTemplates(files) ==
    [stem \in {n \in DOMAIN files : files[n] # Malformed} |-> files[stem]]

\* the outcome of str.format: the text, or the exception raised
Formatted(text) == [error |-> "None", text |-> text]
FormatError(error) == [error |-> error, text |-> NoText]

\* the end of the replacement field that starts at t[i] (after "{"): the index of
\* the first "}", or 0 when "{" comes first or the string ends
RECURSIVE FieldEnd(_, _)
FieldEnd(t, i) ==
    IF i > Len(t) \/ t[i] = "{" THEN 0
    ELSE IF t[i] = "}" THEN i
    ELSE FieldEnd(t, i + 1)

\* template.format(**kwargs) from t[i] on, acc being the text produced so far:
\* "{{" and "}}" are the braces themselves, "{name}" is kwargs[name],
\* "{}" is the first positional argument, of which there is none
RECURSIVE Format(_, _, _, _)
Format(t, i, kw, acc) ==
    IF i > Len(t) THEN Formatted(acc)
    ELSE IF t[i] = "}" THEN
        IF i < Len(t) /\ t[i + 1] = "}"
        THEN Format(t, i + 2, kw, Append(acc, "}"))
        ELSE FormatError("ValueError")
    ELSE IF t[i] = "{" THEN
        IF i = Len(t) THEN FormatError("ValueError")
        ELSE IF t[i + 1] = "{" THEN Format(t, i + 2, kw, Append(acc, "{"))
        ELSE LET end == FieldEnd(t, i + 1)
                 field_name == SubSeq(t, i + 1, end - 1)
             IN  IF end = 0 THEN FormatError("ValueError")
                 ELSE IF field_name = <<>> THEN FormatError("IndexError")
                 ELSE IF field_name \notin DOMAIN kw THEN FormatError("KeyError")
                 ELSE Format(t, end + 1, kw, acc \o kw[field_name])
    ELSE Format(t, i + 1, kw, Append(acc, t[i]))

\* str has format(); the other JSON types have not
FormatValue(template, kw) ==
    IF template.type = "str" THEN Format(template.text, 1, kw, <<>>)
    ELSE FormatError("AttributeError")

\* def format_prompt(self, template_name: str, **kwargs): the names a keyword
\* argument cannot have, being those of the positional parameters
Chars_self == <<"s", "e", "l", "f">>
Chars_template_name == <<"t", "e", "m", "p", "l", "a", "t", "e", "_", "n", "a", "m", "e">>
ParameterNames == {Chars_self, Chars_template_name}

\* the call format_prompt(name, **variables) binds its arguments unless a
\* keyword names a parameter ("got multiple values for argument")
Binds(variables) == DOMAIN variables \cap ParameterNames = {}

\* template = self.templates.get(template_name, "")
TemplateGet(tpls, template_name) ==
    IF template_name \in DOMAIN tpls THEN tpls[template_name] ELSE JsonStr(<<>>)

\* the body of format_prompt: [out, log]
format_prompt(tpls, template_name, kw) ==
    LET template == TemplateGet(tpls, template_name)
        r == FormatValue(template, kw)
    IN  IF ~template.truthy
        THEN [out |-> <<>>, log |-> {Rec("warning", "Template not found", template_name)}]
        ELSE IF r.error = "None" THEN [out |-> r.text, log |-> {}]
        ELSE IF r.error = "KeyError"
        THEN [out |-> <<>>,
              log |-> {Rec("error", "Missing required variable in template", template_name)}]
        ELSE [out |-> <<>>, log |-> {Rec("error", "Failed to format template", template_name)}]

FormatPrompt(template_name, variables) ==
    /\ op' = [name |-> "format_prompt", arg |-> template_name]
    /\ kwargs' = variables
    /\ IF Binds(variables)
       THEN LET r == format_prompt(templates, template_name, variables)
            IN  /\ out' = r.out
                /\ log' = r.log
                /\ raised' = FALSE
       ELSE /\ out' = NoText
            /\ log' = {}
            /\ raised' = TRUE
    /\ pre' = fs
    /\ ok' = FALSE
    /\ results' = NoResults
    /\ path' = NoPath
    /\ listed' = {}
    /\ absent' = FALSE
    /\ issues' = <<>>
    /\ UNCHANGED <<fs, required_dirs, txt, templates>>

\* the characters of a template: a letter, the braces and a variable's name
TemplateAlphabet == {"h", "{", "}", "r"}
TemplateTexts == UNION {[1..n -> TemplateAlphabet] : n \in 0..MaxLen}
\* "{template_name}" and "h{r}h"
TemplateExamples ==
    {<<"{">> \o Chars_template_name \o <<"}">>, <<"h", "{", "r", "}", "h">>}
FileContents ==
    {JsonStr(t) : t \in TemplateTexts \cup TemplateExamples} \cup JsonOthers \cup {Malformed}
\* the stems of the files of prompt_dir, and a name no file has
Stems == {"greet", "plan"}
TemplateNames == Stems \cup {"nope"}
\* prompt_dir: no file, greet.json, or greet.json beside a plan.json
PromptDirs ==
    {NoTemplates}
        \cup {[stem \in {"greet"} |-> c] : c \in FileContents}
        \cup {[stem \in Stems |-> IF stem = "greet" THEN c ELSE JsonStr(<<"h">>)] :
                  c \in FileContents}
\* the variables of a call: each a str
VariableNames == {<<"r">>} \cup ParameterNames
Variables == UNION {[keys -> {<<"V">>}] : keys \in SUBSET VariableNames}

InitPrompt ==
    /\ \E files \in PromptDirs : templates = LoadTemplates(files)
    /\ kwargs = NoKwargs
    /\ txt = NoText
    /\ fs = EmptyFs("dir")
    /\ required_dirs = InitialDirs
    /\ pre = fs
    /\ op = [name |-> "__init__", arg |-> "-"]
    /\ results = NoResults
    /\ ok = FALSE
    /\ path = NoPath
    /\ listed = {}
    /\ raised = FALSE
    /\ log = {}
    /\ out = NoText
    /\ absent = FALSE
    /\ issues = <<>>

NextPrompt ==
    \E template_name \in TemplateNames, variables \in Variables :
        FormatPrompt(template_name, variables)

SpecPrompt == InitPrompt /\ [][NextPrompt]_vars

-----------------------------------------------------------------------------
(* Properties of the prompt manager, checked under SpecText *)

Range(seq) == {seq[i] : i \in DOMAIN seq}
Alphanumerics == WordChars \ {"_"}
IsWordOrHyphen(c) == IsWord(c) \/ c = "-"
NotBlank(c) == c # " "
\* "a b-c d"
QueryExampleAsStated == <<"a", " ", "b", "-", "c", " ", "d">>
\* "a b--c d"
QueryExampleCleaned == <<"a", " ", "b", "-", "-", "c", " ", "d">>

\* C8, as stated: clean_search_query(text) keeps only alphanumerics, whitespace
\* and hyphens, and clean_search_query("a!! b--c  d") is "a b-c d".
C8_CleanAsStated ==
    IsCall("clean_search_query") =>
        /\ \A c \in Range(out) : c \in Alphanumerics \/ IsSpace(c) \/ c = "-"
        /\ txt = QueryExample => out = QueryExampleAsStated

\* C8, amended: clean_search_query(text) removes every character that is not a
\* word character (alphanumeric or underscore), whitespace or hyphen, keeping the
\* others in order, hyphen runs included; whitespace survives only as single
\* spaces between words, none leading or trailing; and
\* clean_search_query("a!! b--c  d") is "a b--c d".
C8_CleanKeepsWordsAndHyphens ==
    IsCall("clean_search_query") =>
        /\ \A c \in Range(out) : IsWord(c) \/ c = "-" \/ c = " "
        /\ SelectSeq(out, NotBlank) = SelectSeq(txt, IsWordOrHyphen)
        /\ \A i \in DOMAIN out :
              out[i] = " " => /\ 1 < i /\ i < Len(out)
                              /\ out[i - 1] # " " /\ out[i + 1] # " "
        /\ (\E i \in DOMAIN out : out[i] = " ") => (\E i \in DOMAIN txt : IsSpace(txt[i]))
        /\ txt = QueryExample => out = QueryExampleCleaned

C8_Witness ==
    /\ IsCall("clean_search_query")
    /\ txt = QueryExample
    /\ out = QueryExampleCleaned

HasCrLf(text) == \E i \in 1..(Len(text) - 1) : text[i] = "\r" /\ text[i + 1] = "\n"
HasBareLf(text) == \E i \in 1..Len(text) : text[i] = "\n" /\ (i = 1 \/ text[i - 1] # "\r")

\* C9, as stated: validate_prompt(text) reports mixed line endings if and only if
\* text holds both a \r\n and a \n not preceded by \r; each of the other three
\* issues is reported exactly when its own condition holds.
C9_MixedIffCrLfAndBareLf ==
    IsCall("validate_prompt") =>
        /\ "Mixed line endings" \in Range(issues) <=> (HasCrLf(txt) /\ HasBareLf(txt))
        /\ "Mismatched quotes" \in Range(issues) <=> OddQuotes(txt)
        /\ "Lines exceed recommended length" \in Range(issues) <=> LongLines(txt)
        /\ "Unreplaced placeholders found" \in Range(issues) <=> Placeholder(txt)

\* "print(1)"
BlockExampleInner == <<"p", "r", "i", "n", "t", "(", "1", ")">>

\* C10, as stated: extract_code_block(text, language) returns the inside of the
\* first fenced block, the characters between its opening-fence line and its own
\* closing fence, so a result never holds a fence; and the block of
\* "text ```python\nprint(1)\n``` more" is "print(1)".
C10_FirstBlockInner ==
    IsCall("extract_code_block") =>
        /\ ~absent => ~Contains(out, Fence)
        /\ (txt = BlockExample /\ op.arg = "None") => (~absent /\ out = BlockExampleInner)

-----------------------------------------------------------------------------
(* Properties of format_feedback, checked under SpecFeedback *)

\* o is s without the whitespace at its ends
IsTrimOf(o, s) ==
    /\ o # <<>> => (~IsSpace(o[1]) /\ ~IsSpace(o[Len(o)]))
    /\ \E lead \in 0..(Len(s) - Len(o)) :
          /\ \A i \in 1..lead : IsSpace(s[i])
          /\ \A k \in 1..Len(o) : o[k] = s[lead + k]
          /\ \A i \in (lead + Len(o) + 1)..Len(s) : IsSpace(s[i])

\* C11: format_feedback(text, max_length) with max_length >= 0 returns the trimmed
\* text when len(text) <= max_length, and otherwise the first max_length characters
\* of text followed by "...", trimmed; the result is never longer than
\* max_length + 3; for 2000 times "x" and max_length 1000 it has length 1003 and
\* ends with "...".
C11_FeedbackTruncated ==
    IsCall("format_feedback") =>
        /\ Len(txt) <= op.arg => IsTrimOf(out, txt)
        /\ Len(txt) > op.arg => IsTrimOf(out, SubSeq(txt, 1, op.arg) \o Ellipsis)
        /\ Len(out) <= op.arg + 3
        /\ (txt = FeedbackExample /\ op.arg = DefaultMaxLength) =>
              /\ Len(out) = DefaultMaxLength + 3
              /\ SubSeq(out, Len(out) - 2, Len(out)) = Ellipsis

C11_Witness ==
    /\ IsCall("format_feedback")
    /\ txt = FeedbackExample
    /\ op.arg = DefaultMaxLength
    /\ Len(out) = DefaultMaxLength + 3

-----------------------------------------------------------------------------
(* Properties of format_prompt, checked under SpecPrompt *)

\* t has no doubled brace, so that each "{name}" in it is a replacement field
NoEscapes(t) == ~Contains(t, <<"{", "{">>) /\ ~Contains(t, <<"}", "}">>)

\* the template requires a variable that the call does not give
MissingVariable(template, given) ==
    /\ template.type = "str"
    /\ NoEscapes(template.text)
    /\ \E v \in VariableNames :
          /\ Contains(template.text, <<"{">> \o v \o <<"}">>)
          /\ v \notin DOMAIN given

\* C12: format_prompt(name, variables) never lets an error escape: it returns ""
\* when no template called name is loaded, when a variable the template requires
\* is missing from variables, and when formatting fails otherwise (as for a
\* loaded template that is not a str); and it leaves self.templates as it was.
C12_FormatPromptTotal ==
    [][IsCall("format_prompt")' =>
          LET name == op'.arg
          IN  /\ ~raised'
              /\ (\/ name \notin DOMAIN templates
                  \/ templates[name].type # "str"
                  \/ MissingVariable(templates[name], kwargs')) => out' = <<>>
              /\ templates' = templates]_vars

-----------------------------------------------------------------------------
(* Further properties of the directory manager, checked under Spec *)

\* the node is what it was, up to its mode
SameNode(before, after) ==
    \/ before = after
    \/ before \in DirKinds /\ after \in DirKinds

\* C13: setup_directories is idempotent and not destructive: a managed directory
\* is created only where nothing was, no file or directory that existed is
\* removed or emptied, and a second call right after the first returns the same
\* results and leaves the same set of paths on disk.
C13_SetupIdempotent ==
    IsCall("setup_directories") =>
        /\ \A p \in ManagedPaths :
              (IsDir(fs, p) /\ ~IsDir(pre, p)) => KindAt(pre, p) = "absent"
        /\ \A p \in Paths : Present(pre, p) => SameNode(pre[p], fs[p])
        /\ LET second == SetupLoop(required_dirs, Start(fs), 1)
           IN  /\ ~second.raised
               /\ second.results = results
               /\ {p \in Paths : Present(second.fs, p)} = {p \in Paths : Present(fs, p)}

C13_Witness ==
    /\ IsCall("setup_directories")
    /\ \E p \in ManagedPaths : KindAt(pre, p) = "absent" /\ IsDir(fs, p)
    /\ \E p \in Paths : KindAt(pre, p) \in {"file", "dangling"}
    /\ \E p \in Paths \ ManagedPaths : IsDir(pre, p)
    /\ \E n \in Names : results[n]
\* every managed directory is there and validate_permissions reports it true
AllManaged(f) ==
    /\ \A p \in ManagedPaths : IsDir(f, p)
    /\ \A n \in Names : ValidateLoop(required_dirs, Start(f), 1).results[n]

\* C14: cleanup_directory never removes a managed directory: from a state where
\* setup_directories reported all five names true, after each cleanup of a known
\* name all five managed directories still exist and validate_permissions still
\* reports every name true, "source" and "tex" lying under "research" or not.
C14_CleanupKeepsManagedDirs ==
    (/\ IsCall("cleanup_directory")
     /\ op.arg \in Names
     /\ AllManaged(pre)) => AllManaged(fs)

\* C15: validate_permissions leaves the filesystem as it found it: every managed
\* directory has the children it had, a .permission_test that was there
\* included, and no missing directory is created.
C15_ValidateLeavesFs ==
    IsCall("validate_permissions") =>
        \A p \in ManagedPaths :
            /\ Children(fs, p) = Children(pre, p)
            /\ Present(fs, p) <=> Present(pre, p)

====
